---- MODULE Spec2Model ----
(***************************************************************************)
(* Model of lcr/__init__.py: the Callings directory (tree flattening,      *)
(* calling lookup, release and appoint workflows) over the API client's    *)
(* get_request / post_request.                                             *)
(***************************************************************************)
EXTENDS Integers, Sequences, FiniteSets, TLC

(* ------------------------------ bounds -------------------------------- *)

\* Largest number of org nodes in a fetched tree (flattening checks).
MaxOrgs == 4

\* Largest number of calling records attached to one org node (flattening checks).
MaxCallings == 1

\* Largest number of org nodes in the tree a directory is built from (workflow checks).
MaxUnits == 3

\* Largest number of workflow calls made on one directory (workflow checks).
MaxCalls == 1

(* --------------------------- value domains ---------------------------- *)

\* Python's None.
None == "None"

Positions == {"Teacher", "Clerk"}

Names == {"Smith, John", "Doe, Jane"}

\* Identifiers of the candidate members the portal can return.
MemberIds == {"12345", "67890"}

\* datetime.date values (year, month, day), years of four digits: the
\* sustained_date values given to call_to, and the values of date.today().
SustainedDates == {[y |-> 2024, m |-> 9, d |-> 1]}

Todays == {[y |-> 2024, m |-> 11, d |-> 20]}

\* Raw responses of a successful POST.
Responses == {"resp200"}

VARIABLES
    orgs,       \* the org tree returned by services/orgs/sub-orgs-with-callings
    built,      \* whether Callings.__init__ has run
    callings,   \* Callings.callings: the flattened list of calling objects (by identity)
    rec,        \* the calling objects: identity -> fields
    last,       \* the last workflow call: arguments, requests issued, outcome
    ncalls      \* the number of workflow calls made so far

vars == <<orgs, built, callings, rec, last, ncalls>>

(* ------------------------------ org tree ------------------------------ *)

\* An org tree of n nodes: node i has parent[i] < i (0: a root) and carries
\* ncall[i] calling records; siblings are ordered by node number.
OrgTrees(maxNodes, counts) ==
    UNION { { [parent |-> p, ncall |-> c] :
                p \in { q \in [1..n -> 0..n] : \A i \in 1..n : q[i] < i },
                c \in [1..n -> counts] } : n \in 0..maxNodes }

NodesOf(t) == DOMAIN t.parent

\* org['children'] of node p (p = 0: the root list), as fetched.
RECURSIVE ChildrenFrom(_, _, _)
ChildrenFrom(t, p, i) ==
    IF i > Len(t.parent) THEN <<>>
    ELSE (IF t.parent[i] = p THEN <<i>> ELSE <<>>) \o ChildrenFrom(t, p, i + 1)

Children(t, p) == ChildrenFrom(t, p, 1)

\* org['callings'] of node n: the identities of its calling records.
OrgCallings(t, n) == [k \in 1..t.ncall[n] |-> <<n, k>>]

\* The list objects of the fetched JSON: 0 is the root list, n is node n's
\* 'children' list.
InitialLists(t) == [p \in {0} \cup NodesOf(t) |-> Children(t, p)]

(* ------------------------- Callings._flatten_orgs --------------------- *)

\* A mutant that walks the tree in pre-order on a fresh list: each node,
\* then its children's subtrees, left to right.
FlattenPreOrder(lists, ref) ==
    LET RECURSIVE Walk(_)
        Walk(nodes) ==
            IF nodes = <<>> THEN <<>>
            ELSE <<Head(nodes)>> \o Walk(lists[Head(nodes)]) \o Walk(Tail(nodes))
    IN [lists EXCEPT ![ref] = Walk(lists[ref])]

\* _flatten_orgs(orgs): result is the SAME list object as orgs, `result += ...`
\* extends it in place, and the for loop runs over the list as it grows.
\* The heap `lists` is threaded through; the value returned is lists[ref].
RECURSIVE FlattenOrgs(_, _), FlattenLoop(_, _, _)
FlattenLoop(lists, ref, i) ==
    IF i > Len(lists[ref]) THEN lists
    ELSE LET org == lists[ref][i]
             sub == FlattenOrgs(lists, org)
             ext == [sub EXCEPT ![ref] = sub[ref] \o sub[org]]
         IN FlattenLoop(ext, ref, i + 1)

FlattenOrgs(lists, ref) == FlattenLoop(lists, ref, 1)

\* flattened_orgs of Callings.__init__: the node list the root call returns.
FlattenedOrgs(t) == FlattenOrgs(InitialLists(t), 0)[0]

RECURSIVE ConcatCallings(_, _)
ConcatCallings(t, nodes) ==
    IF nodes = <<>> THEN <<>>
    ELSE OrgCallings(t, Head(nodes)) \o ConcatCallings(t, Tail(nodes))

\* self.callings = [calling for callings in calling_lists for calling in callings]
BuildCallings(t) == ConcatCallings(t, FlattenedOrgs(t))

(* --------------------------- calling records -------------------------- *)

\* The identities of the calling objects of tree t.
CallingIds(t) == UNION { { <<n, k>> : k \in 1..t.ncall[n] } : n \in NodesOf(t) }

\* The positionTypeId the portal attaches to a position.
PositionTypeOf(position) == IF position = "Teacher" THEN "pt-teacher" ELSE "pt-clerk"

\* A calling record as the portal returns it for a slot of org node n.
Fetched(n, position, memberName, vacant, hidden, releaseDate) ==
    [position |-> position, memberName |-> memberName,
     memberId |-> IF memberName = None THEN None ELSE "11111",
     vacant |-> vacant, hidden |-> hidden,
     subOrgId |-> n, positionTypeId |-> PositionTypeOf(position),
     activeDate |-> None, releaseDate |-> releaseDate, setApart |-> FALSE]

\* The records the portal can return for the slot of org node n in the
\* workflow checks: occupied and vacant, visible and hidden slots, two
\* roles, with and without an earlier release date.
FetchedCallings(n) ==
    IF n = 1 THEN { Fetched(n, "Teacher", "Smith, John", FALSE, FALSE, None) }
    ELSE IF n = 2 THEN { Fetched(n, "Teacher", "Doe, Jane", FALSE, TRUE, None),
                         Fetched(n, "Teacher", None, TRUE, FALSE, "20230115") }
    ELSE IF n = 3 THEN { Fetched(n, "Teacher", None, TRUE, TRUE, None),
                         Fetched(n, "Clerk", "Smith, John", FALSE, FALSE, None) }
    ELSE { Fetched(n, "Clerk", None, TRUE, FALSE, None) }

\* The record every slot carries in the flattening checks, where fields play no part.
PlainCalling(n) ==
    [position |-> "Teacher", memberName |-> None, memberId |-> None,
     vacant |-> TRUE, hidden |-> FALSE, subOrgId |-> n,
     positionTypeId |-> PositionTypeOf("Teacher"),
     activeDate |-> None, releaseDate |-> None, setApart |-> FALSE]

(* ------------------------------- helpers ------------------------------ *)

Pad2(n) == IF n < 10 THEN "0" \o ToString(n) ELSE ToString(n)

\* A mutant that drops the zero padding of %m and %d.
DateFormatUnpadded(date) == ToString(date.y) \o ToString(date.m) \o ToString(date.d)

\* to_lcr_date_format: date.strftime("%Y%m%d").
to_lcr_date_format(date) == ToString(date.y) \o Pad2(date.m) \o Pad2(date.d)

\* A mutant that returns the first of several results instead of raising.
SingleFirst(list) ==
    IF Len(list) = 0 THEN [exc |-> "ItemNotFoundException", value |-> None]
    ELSE [exc |-> None, value |-> list[1]]

\* single(list, itemName): the sole element, or the exception raised.
single(list) ==
    IF Len(list) > 1 THEN [exc |-> "MultipleResponsesException", value |-> None]
    ELSE IF Len(list) = 0 THEN [exc |-> "ItemNotFoundException", value |-> None]
    ELSE [exc |-> None, value |-> list[1]]

\* condition = lambda calling: True (the default of _get_calling_by_name).
DefaultCondition == [fn |-> "true"]

\* A mutant of call_to's lambda that forgets the hidden flag.
CallToConditionNoHidden(lastNameCommaFirst, include_hidden) ==
    [fn |-> "call_to", lastNameCommaFirst |-> lastNameCommaFirst,
     include_hidden |-> TRUE]

\* The lambda call_to passes: it closes over lastNameCommaFirst and include_hidden.
CallToCondition(lastNameCommaFirst, include_hidden) ==
    [fn |-> "call_to", lastNameCommaFirst |-> lastNameCommaFirst,
     include_hidden |-> include_hidden]

\* condition(calling)
ApplyCondition(condition, calling) ==
    IF condition.fn = "true" THEN TRUE
    ELSE /\ (calling.vacant \/ calling.memberName = condition.lastNameCommaFirst)
         /\ (~calling.hidden \/ condition.include_hidden)

\* A mutant that matches on the position alone.
GetCallingIgnoringName(position, lastNameCommaFirst, condition) ==
    single(SelectSeq(callings, LAMBDA c :
        rec[c].position = position /\ ApplyCondition(condition, rec[c])))

\* The entries of self.callings _get_calling_by_name hands to single().
MatchingCallings(position, lastNameCommaFirst, condition) ==
    SelectSeq(
        SelectSeq(callings, LAMBDA c :
            /\ rec[c].position = position
            /\ (rec[c].memberName = lastNameCommaFirst \/ lastNameCommaFirst = None)),
        LAMBDA c : ApplyCondition(condition, rec[c]))

\* Callings._get_calling_by_name
GetCallingByName(position, lastNameCommaFirst, condition) ==
    single(MatchingCallings(position, lastNameCommaFirst, condition))

(* ------------------------------ API client ---------------------------- *)

\* What _make_request can do with a request: return the response, or raise
\* on a non-200 status (response.raise_for_status()).
HttpResults == {"ok", "HTTPError"}

\* A mutant of get_request that passes post=True to _make_request.
GetRequestAsPost(path, params, status) ==
    [method |-> "POST", path |-> path, params |-> [lang |-> "eng"] @@ params,
     json |-> None, status |-> status]

\* API.get_request(path, params): params['lang'] = 'eng', then the request
\* _make_request sends with session.get, and how it ended.
GetRequest(path, params, status) ==
    [method |-> "GET", path |-> path, params |-> [lang |-> "eng"] @@ params,
     json |-> None, status |-> status]

\* API.post_request(path, params): the request _make_request sends with
\* session.post (params as the JSON body), and how it ended.
PostRequest(path, body, status) ==
    [method |-> "POST", path |-> path, params |-> [lang |-> "eng"],
     json |-> body, status |-> status]

\* The candidate lists services/orgs/lookup-calling-candidate-by-name can return.
CandidateLists ==
    {<<>>} \cup { <<[id |-> a]>> : a \in MemberIds }
           \cup { <<[id |-> "12345"], [id |-> "67890"]>> }

UnitNumber == "unit-1"

\* The record of one workflow call: what it was given (op .. include_hidden),
\* whether it resolved a calling, which one and that calling's fields when
\* the call began, the candidate list it received, the requests it sent, and
\* how it ended (returned, or the exception raised).
NoCall ==
    [op |-> "none", position |-> None, name |-> None, date |-> None,
     set_apart |-> FALSE, include_hidden |-> FALSE,
     resolved |-> FALSE, target |-> None,
     before |-> None, candidates |-> None, requests |-> <<>>,
     outcome |-> None, returned |-> None]

(* ----------------------------- construction --------------------------- *)

\* Callings.__init__ on the fetched tree: flatten, then collect the callings.
Construct ==
    /\ ~built
    /\ built' = TRUE
    /\ callings' = BuildCallings(orgs)
    /\ UNCHANGED <<orgs, rec, last, ncalls>>

(* ------------------------------ workflows ----------------------------- *)

\* A mutant that leaves an already vacant calling as it is.
ReleasedUnlessVacant(calling, today) ==
    IF calling.vacant THEN calling
    ELSE [calling EXCEPT !.vacant = TRUE, !.releaseDate = to_lcr_date_format(today)]

\* release_from_calling's assignments to the calling object.
ReleasedCalling(calling, today) ==
    [calling EXCEPT !.vacant = TRUE, !.releaseDate = to_lcr_date_format(today)]

\* A mutant that also records the candidate's name on the calling.
CalledCallingWithName(calling, sustained_date, member, set_apart) ==
    [calling EXCEPT !.activeDate = to_lcr_date_format(sustained_date),
                    !.memberId = member.id,
                    !.memberName = member.id,
                    !.setApart = set_apart,
                    !.vacant = FALSE,
                    !.hidden = FALSE]

\* call_to's assignments to the calling object.
CalledCalling(calling, sustained_date, member, set_apart) ==
    [calling EXCEPT !.activeDate = to_lcr_date_format(sustained_date),
                    !.memberId = member.id,
                    !.setApart = set_apart,
                    !.vacant = FALSE,
                    !.hidden = FALSE]

\* A mutant that writes first and updates the list only when the write succeeds.
release_commit_after_write(position, lastNameCommaFirst, today, post) ==
    /\ built
    /\ LET found == GetCallingByName(position, lastNameCommaFirst, DefaultCondition)
           c == found.value
           released == ReleasedCalling(rec[c], today)
           log == [NoCall EXCEPT !.op = "release_from_calling",
                                 !.position = position,
                                 !.name = lastNameCommaFirst,
                                 !.date = today]
       IN IF found.exc # None
          THEN /\ rec' = rec
               /\ last' = [log EXCEPT !.outcome = found.exc]
          ELSE /\ rec' = IF post = "ok" THEN [rec EXCEPT ![c] = released] ELSE rec
               /\ last' = [log EXCEPT
                    !.resolved = TRUE, !.target = c, !.before = rec[c],
                    !.requests = <<PostRequest("services/orgs/callings", released, post)>>,
                    !.outcome = IF post = "ok" THEN "returned" ELSE "HTTPError"]
    /\ ncalls' = ncalls + 1
    /\ UNCHANGED <<orgs, built, callings>>

\* Callings.release_from_calling(position, lastNameCommaFirst); `today` is
\* date.today() and `post` what the POST does.
release_from_calling(position, lastNameCommaFirst, today, post) ==
    /\ built
    /\ LET found == GetCallingByName(position, lastNameCommaFirst, DefaultCondition)
           c == found.value
           released == ReleasedCalling(rec[c], today)
           log == [NoCall EXCEPT !.op = "release_from_calling",
                                 !.position = position,
                                 !.name = lastNameCommaFirst,
                                 !.date = today]
       IN IF found.exc # None
          THEN /\ rec' = rec
               /\ last' = [log EXCEPT !.outcome = found.exc]
          ELSE /\ rec' = [rec EXCEPT ![c] = released]
               /\ last' = [log EXCEPT
                    !.resolved = TRUE, !.target = c, !.before = rec[c],
                    !.requests = <<PostRequest("services/orgs/callings", released, post)>>,
                    !.outcome = IF post = "ok" THEN "returned" ELSE "HTTPError"]
    /\ ncalls' = ncalls + 1
    /\ UNCHANGED <<orgs, built, callings>>

\* Callings.call_to(position, lastNameCommaFirst, sustained_date, set_apart,
\* include_hidden); `get`/`members` are what the candidate lookup does and
\* returns, `post`/`response` what the POST does and returns.
call_to(position, lastNameCommaFirst, sustained_date, set_apart, include_hidden, get, members, post, response) ==
    /\ built
    /\ LET found == GetCallingByName(position, None,
                        CallToCondition(lastNameCommaFirst, include_hidden))
           c == found.value
           lookup == GetRequest("services/orgs/lookup-calling-candidate-by-name",
                        [term |-> lastNameCommaFirst, unitNumber |-> UnitNumber,
                         subOrgId |-> rec[c].subOrgId,
                         includeOutOfUnitMembers |-> TRUE,
                         positionTypeId |-> rec[c].positionTypeId]
                        @@ ("_" :> None), get)
           member == single(members)
           called == CalledCalling(rec[c], sustained_date, member.value, set_apart)
           log == [NoCall EXCEPT !.op = "call_to",
                                 !.position = position,
                                 !.name = lastNameCommaFirst,
                                 !.date = sustained_date,
                                 !.set_apart = set_apart,
                                 !.include_hidden = include_hidden]
       IN IF found.exc # None
          THEN /\ rec' = rec
               /\ last' = [log EXCEPT !.outcome = found.exc]
          ELSE IF get # "ok"
          THEN /\ rec' = rec
               /\ last' = [log EXCEPT !.resolved = TRUE, !.target = c, !.before = rec[c],
                                      !.requests = <<lookup>>,
                                      !.outcome = "HTTPError"]
          ELSE IF member.exc # None
          THEN /\ rec' = rec
               /\ last' = [log EXCEPT !.resolved = TRUE, !.target = c, !.before = rec[c],
                                      !.candidates = members,
                                      !.requests = <<lookup>>,
                                      !.outcome = member.exc]
          ELSE /\ rec' = [rec EXCEPT ![c] = called]
               /\ last' = [log EXCEPT
                    !.resolved = TRUE, !.target = c, !.before = rec[c],
                    !.candidates = members,
                    !.requests = <<lookup,
                                   PostRequest("services/orgs/callings", called, post)>>,
                    !.outcome = IF post = "ok" THEN "returned" ELSE "HTTPError",
                    !.returned = IF post = "ok" THEN response ELSE None]
    /\ ncalls' = ncalls + 1
    /\ UNCHANGED <<orgs, built, callings>>

Release ==
    /\ ncalls < MaxCalls
    /\ \E position \in Positions, name \in Names \cup {None}, today \in Todays,
          post \in HttpResults :
           release_from_calling(position, name, today, post)

CallTo ==
    /\ ncalls < MaxCalls
    /\ \E position \in Positions, name \in Names, sustained_date \in SustainedDates,
          set_apart \in BOOLEAN, include_hidden \in BOOLEAN, get \in HttpResults :
       \* inputs the call never reads are fixed, so each run is drawn once
       \E members \in (IF get = "ok" THEN CandidateLists ELSE {<<>>}) :
       \E post \in (IF Len(members) = 1 THEN HttpResults ELSE {"ok"}),
          response \in Responses :
           call_to(position, name, sustained_date, set_apart, include_hidden,
                   get, members, post, response)

(* --------------------------- specifications --------------------------- *)

\* The directory right after Callings(api): built from a fetched tree of at
\* most MaxUnits org nodes, each carrying no slot or one slot with a record
\* the portal can return. The fetched tree is local to __init__ and is gone.
Init ==
    \E t \in OrgTrees(MaxUnits, {0, 1}) :
        /\ orgs = None
        /\ built = TRUE
        /\ callings = BuildCallings(t)
        /\ rec \in [CallingIds(t) -> UNION { FetchedCallings(n) : n \in NodesOf(t) }]
        /\ \A id \in CallingIds(t) : rec[id] \in FetchedCallings(id[1])
        /\ last = NoCall
        /\ ncalls = 0

Next == Release \/ CallTo

Spec == Init /\ [][Next]_vars

\* The flattening on its own: a fetched tree, then Callings.__init__.
InitFlatten ==
    /\ orgs \in OrgTrees(MaxOrgs, 0..MaxCallings)
    /\ built = FALSE
    /\ callings = <<>>
    /\ rec = [id \in CallingIds(orgs) |-> PlainCalling(id[1])]
    /\ last = NoCall
    /\ ncalls = 0

NextFlatten == Construct

SpecFlatten == InitFlatten /\ [][NextFlatten]_vars

(* ======================================================================= *)
(* Properties                                                              *)
(* ======================================================================= *)

\* The number of calling records of tree t.
RECURSIVE SumCallings(_, _)
SumCallings(t, n) == IF n = 0 THEN 0 ELSE t.ncall[n] + SumCallings(t, n - 1)

Occurrences(id) == Cardinality({ i \in DOMAIN callings : callings[i] = id })

\* C1: once the directory is built, the flattened list is as long as the
\* tree has calling records, and each record of the tree occurs in it
\* exactly once.
FlatteningComplete ==
    built =>
        /\ Len(callings) = SumCallings(orgs, Len(orgs.parent))
        /\ \A id \in CallingIds(orgs) : Occurrences(id) = 1

\* The pre-order traversal of the forest whose roots are `nodes`.
RECURSIVE PreOrderNodes(_, _)
PreOrderNodes(t, nodes) ==
    IF nodes = <<>> THEN <<>>
    ELSE <<Head(nodes)>> \o PreOrderNodes(t, Children(t, Head(nodes)))
                         \o PreOrderNodes(t, Tail(nodes))

PreOrderCallings(t) == ConcatCallings(t, PreOrderNodes(t, Children(t, 0)))

\* C9 as stated: the flattened list is the pre-order traversal of the tree
\* (a node's records, then each child's subtree, left to right).
FlatteningIsPreOrder == built => callings = PreOrderCallings(orgs)

RootCallings(t) == ConcatCallings(t, Children(t, 0))

RECURSIVE IsAncestor(_, _, _)
IsAncestor(t, a, n) ==
    IF n = 0 THEN FALSE
    ELSE t.parent[n] = a \/ IsAncestor(t, a, t.parent[n])

\* C9 amended: the flattened list starts with the records of all root nodes,
\* in root order; everything after them belongs to deeper nodes; and a
\* record of a node always comes after the records of each of its ancestors.
FlatteningParentsFirst ==
    built =>
        /\ Len(callings) >= Len(RootCallings(orgs))
        /\ SubSeq(callings, 1, Len(RootCallings(orgs))) = RootCallings(orgs)
        /\ \A j \in DOMAIN callings :
            /\ (j > Len(RootCallings(orgs)) => orgs.parent[callings[j][1]] # 0)
            /\ \A a \in NodesOf(orgs) :
                (IsAncestor(orgs, a, callings[j][1]) /\ orgs.ncall[a] > 0)
                    => \E i \in 1..(j - 1) : callings[i][1] = a

\* C9 witness: a built list, free of repeats, that is not the pre-order:
\* a second root's records stand before those of the first root's child.
FlatteningParentsFirstWitness ==
    /\ built
    /\ callings # PreOrderCallings(orgs)
    /\ \A id \in CallingIds(orgs) : Occurrences(id) = 1
    /\ \E n \in NodesOf(orgs) : orgs.parent[n] # 0 /\ orgs.ncall[n] > 0

(* ------------------------- workflow properties ------------------------ *)

\* The YYYYMMDD encoding of a date of a four-digit year, as a number's digits.
ExpectedYMD(date) == ToString(date.y * 10000 + date.m * 100 + date.d)

IsWrite(request) ==
    request.method = "POST" /\ request.path = "services/orgs/callings"

IsCandidateLookup(request) ==
    /\ request.method = "GET"
    /\ request.path = "services/orgs/lookup-calling-candidate-by-name"

Writes(log) == { i \in DOMAIN log.requests : IsWrite(log.requests[i]) }

HasWrite(log) == Writes(log) # {}

\* The call received a candidate list (its lookup request came back).
GotCandidates(log) ==
    /\ Len(log.requests) >= 1
    /\ IsCandidateLookup(log.requests[1])
    /\ log.requests[1].status = "ok"

\* The appointment predicate of the specification, on a record r.
Eligible(r, position, name, include_hidden) ==
    /\ r.position = position
    /\ (r.vacant \/ r.memberName = name)
    /\ (include_hidden \/ ~r.hidden)

\* The entries of the list (before the step) an appoint call may target.
AppointMatches(position, name, include_hidden) ==
    { i \in DOMAIN callings :
        Eligible(rec[callings[i]], position, name, include_hidden) }

\* The entries of the list (before the step) a release call may target.
ReleaseMatches(position, name) ==
    { i \in DOMAIN callings :
        /\ rec[callings[i]].position = position
        /\ (name = None \/ rec[callings[i]].memberName = name) }

IsCall(op) == last'.op = op /\ ncalls' = ncalls + 1

\* C2: an appoint call whose target lookup does not match exactly one entry,
\* or whose candidate lookup does not return exactly one member, issues no
\* POST to services/orgs/callings.
AbortBeforeWrite ==
    [][IsCall("call_to") =>
        LET n == Cardinality(AppointMatches(last'.position, last'.name,
                                            last'.include_hidden))
        IN (n # 1 \/ (GotCandidates(last') /\ Len(last'.candidates) # 1))
               => ~HasWrite(last')]_vars

\* C2 witness: an appoint call that resolved its target, received two
\* candidates and sent no write.
AbortBeforeWriteWitness ==
    /\ last.op = "call_to"
    /\ last.resolved
    /\ GotCandidates(last)
    /\ Len(last.candidates) = 2
    /\ last.outcome = "MultipleResponsesException"
    /\ ~HasWrite(last)

\* C3: the record an appoint call submits is the resolved target with
\* activeDate the YYYYMMDD form of the given date, memberId the id of the
\* single candidate, setApart the given flag, vacant and hidden false, and
\* every other field as it was; a call that returns returns the response.
AppointWriteShape ==
    (last.op = "call_to" /\ HasWrite(last)) =>
        LET body == last.requests[Len(last.requests)].json
        IN /\ last.resolved
           /\ GotCandidates(last)
           /\ Len(last.candidates) = 1
           /\ body = rec[last.target]
           /\ body.activeDate = ExpectedYMD(last.date)
           /\ Len(body.activeDate) = 8
           /\ body.memberId = last.candidates[1].id
           /\ body.setApart = last.set_apart
           /\ body.vacant = FALSE
           /\ body.hidden = FALSE
           /\ body.position = last.before.position
           /\ body.memberName = last.before.memberName
           /\ body.subOrgId = last.before.subOrgId
           /\ body.positionTypeId = last.before.positionTypeId
           /\ body.releaseDate = last.before.releaseDate
           /\ last.outcome \in {"returned", "HTTPError"}
           /\ (last.outcome = "returned" => last.returned \in Responses)

\* C3 witness: an appointment, set apart, to a slot that was vacant and hidden.
AppointWriteShapeWitness ==
    /\ last.op = "call_to"
    /\ last.outcome = "returned"
    /\ HasWrite(last)
    /\ last.set_apart
    /\ last.before.vacant
    /\ last.before.hidden

\* C4: an appoint call that returns has sent exactly two requests: first the
\* candidate lookup, scoped to the target's subOrgId and positionTypeId,
\* then the write; and no appoint call writes before it has looked up.
AppointTwoRequests ==
    (last.op = "call_to") =>
        /\ (last.outcome = "returned" =>
              /\ Len(last.requests) = 2
              /\ IsCandidateLookup(last.requests[1])
              /\ last.requests[1].params.term = last.name
              /\ last.requests[1].params.subOrgId = last.before.subOrgId
              /\ last.requests[1].params.positionTypeId = last.before.positionTypeId
              /\ last.requests[1].params.includeOutOfUnitMembers
              /\ IsWrite(last.requests[2]))
        /\ \A j \in Writes(last) :
              /\ j = 2
              /\ IsCandidateLookup(last.requests[1])
        /\ \A j \in DOMAIN last.requests :
              IsCandidateLookup(last.requests[j]) \/ IsWrite(last.requests[j])

\* C4 witness: an appoint call that returned after its two requests.
AppointTwoRequestsWitness ==
    /\ last.op = "call_to"
    /\ last.outcome = "returned"
    /\ Len(last.requests) = 2
    /\ last.requests[2].status = "ok"

\* C5: a release call whose lookup (role, name) matches exactly one entry
\* leaves that record vacant with releaseDate today's YYYYMMDD and sends
\* exactly one write carrying the full record; any other release call
\* raises the lookup error, sends nothing and changes nothing.
ReleaseMarksVacant ==
    [][IsCall("release_from_calling") =>
        LET m == ReleaseMatches(last'.position, last'.name)
        IN IF Cardinality(m) = 1
           THEN LET c == callings[CHOOSE i \in m : TRUE]
                IN /\ rec'[c].vacant
                   /\ rec'[c].releaseDate = ExpectedYMD(last'.date)
                   /\ Len(last'.requests) = 1
                   /\ IsWrite(last'.requests[1])
                   /\ last'.requests[1].json = rec'[c]
                   /\ last'.requests[1].json.position = rec[c].position
                   /\ last'.requests[1].json.memberName = rec[c].memberName
           ELSE /\ last'.requests = <<>>
                /\ last'.outcome \in {"ItemNotFoundException",
                                      "MultipleResponsesException"}
                /\ rec' = rec]_vars

\* C5 witness: a release of a record that was already vacant and already
\* carried another release date.
ReleaseMarksVacantWitness ==
    /\ last.op = "release_from_calling"
    /\ last.resolved
    /\ last.before.vacant
    /\ last.before.releaseDate = "20230115"
    /\ rec[last.target].releaseDate = ExpectedYMD(last.date)
    /\ rec[last.target].vacant
    /\ HasWrite(last)

\* C6: a lookup resolves the matching entry when exactly one entry of the
\* list matches (role, optional name, predicate), raises
\* ItemNotFoundException when none does and MultipleResponsesException when
\* several do.
LookupUniqueness ==
    [][(IsCall("release_from_calling") \/ IsCall("call_to")) =>
        LET m == IF last'.op = "call_to"
                 THEN AppointMatches(last'.position, last'.name,
                                     last'.include_hidden)
                 ELSE ReleaseMatches(last'.position, last'.name)
        IN CASE Cardinality(m) = 1 ->
                    /\ last'.resolved
                    /\ last'.target = callings[CHOOSE i \in m : TRUE]
             [] Cardinality(m) = 0 ->
                    /\ ~last'.resolved
                    /\ last'.outcome = "ItemNotFoundException"
             [] OTHER ->
                    /\ ~last'.resolved
                    /\ last'.outcome = "MultipleResponsesException"]_vars

\* C6 witness: a release by role and name that two different records match.
LookupUniquenessWitness ==
    /\ last.op = "release_from_calling"
    /\ ~last.resolved
    /\ last.outcome = "MultipleResponsesException"
    /\ \E a \in DOMAIN rec, b \in DOMAIN rec :
        /\ a # b
        /\ rec[a].position = last.position
        /\ rec[b].position = last.position

FailedWriteKeepsMutation ==
    (HasWrite(last) /\ last.requests[Len(last.requests)].status = "HTTPError") =>
        /\ last.outcome = "HTTPError"
        /\ last.returned = None
        /\ Cardinality(Writes(last)) = 1
        /\ rec[last.target] = last.requests[Len(last.requests)].json
        /\ (last.op = "release_from_calling" =>
              /\ rec[last.target].vacant
              /\ rec[last.target].releaseDate = ExpectedYMD(last.date))
        /\ (last.op = "call_to" =>
              /\ rec[last.target].activeDate = ExpectedYMD(last.date)
              /\ rec[last.target].memberId = last.candidates[1].id
              /\ rec[last.target].setApart = last.set_apart
              /\ ~rec[last.target].vacant
              /\ ~rec[last.target].hidden)

\* C8 witness: a release of an occupied slot whose write failed.
FailedWriteKeepsMutationWitness ==
    /\ last.op = "release_from_calling"
    /\ HasWrite(last)
    /\ last.outcome = "HTTPError"
    /\ ~last.before.vacant

====
